---------------------------- MODULE Spec2Model ----------------------------
(***************************************************************************)
(* Model of examples/file_feed_asyncio.py: class FeedReader, a bounded     *)
(* producer/consumer pipeline on an asyncio event loop.                    *)
(*                                                                         *)
(* One producer task (_get_from_feed_and_enqueue) pulls file objects from  *)
(* the feed and puts them into an asyncio.Queue(maxsize=num_workers);      *)
(* num_workers worker tasks (_process_files_from_queue) get them, download *)
(* the content and write two files.  abort() sets a flag; run() waits for  *)
(* asyncio.gather of the worker tasks.                                     *)
(*                                                                         *)
(* Every task step between two awaits is atomic on the event loop; the     *)
(* synchronous statements of a worker iteration (the two writes,           *)
(* task_done/print) are kept as steps of their own so that their order is  *)
(* observable.                                                             *)
(*                                                                         *)
(* A file object is identified with its position in the feed (a number);   *)
(* 0 stands for "no object".                                               *)
(***************************************************************************)
EXTENDS Integers, Sequences, FiniteSets

\* Largest num_workers the model constructs a FeedReader with.
MaxWorkers == 2
\* Largest number of file objects the feed yields in one run.
MaxItems == 3
\* Largest num_workers of the runs on a long feed (SpecLongFeed).
MaxLongFeedWorkers == 1
\* The cursors the caller passes to the constructor: 0 stands for None (the
\* feed's own starting point), 1 for a position reported by an earlier run.
StartCursors == {0, 1}

VARIABLES
  num_workers,   \* self._num_workers
  aborted,       \* self._aborted
  cursor,        \* self._cursor
  queue,         \* self._queue: the items held, oldest first
  unfinished,    \* self._queue's count of items put and not yet task_done
  runState,      \* "init" | "running" | "returned" | "raised": where run() is
  ppc,           \* producer task: "start" | "fetch" | "put" | "done" | "error"
  feedStart,     \* the cursor the feed object was opened with
  feedCursor,    \* feed.cursor
  fileObj,       \* the producer's loop variable file_obj
  wpc,           \* wpc[w]: position of worker task w
  wobj,          \* wobj[w]: worker w's file_obj
  jsonFiles,     \* ids with a file <output_dir>/<id>.json
  dataFiles,     \* ids with a file <output_dir>/<id>
  printed,       \* ids printed, in order
  putLog,        \* history: items put into the queue, in order
  getLog,        \* history: <<item, worker>> for every completed get, in order
  fetchLog       \* history: value of the abort flag at the start of each feed fetch

vars == <<num_workers, aborted, cursor, queue, unfinished, runState, ppc,
          feedStart, feedCursor, fileObj, wpc, wobj, jsonFiles, dataFiles,
          printed, putLog, getLog, fetchLog>>

Workers == 1..num_workers

WorkerPcs == {"loop", "get", "fetch", "write_json", "write_data", "task_done",
              "done", "failed"}

----------------------------------------------------------------------------
(* asyncio.Queue(maxsize=num_workers)                                      *)

\* A queue built with room for twice as many items as there are workers.
maxsizeDoubled == 2 * num_workers

\* The queue's maxsize, line 40.
maxsize == num_workers

\* A full() that never reports a full queue.
fullAlwaysFalse(q) == FALSE

\* Queue.full(): a maxsize <= 0 means an unbounded queue.
full(q) == IF maxsize <= 0 THEN FALSE ELSE Len(q) >= maxsize

\* Queue.empty()
empty(q) == Len(q) = 0

\* A get() that hands out the oldest item and leaves it in the queue.
restKeepsHead(q) == q

\* The queue after get() has removed its oldest item.
rest(q) == Tail(q)

----------------------------------------------------------------------------
(* The feed object returned by client.feed(vt.FeedType.FILES, cursor=...)  *)

\* feed.cursor after the feed has yielded one more item: the position of that
\* item, the one after position pos.
position_after(pos) == pos + 1

----------------------------------------------------------------------------
(* FeedReader.__init__                                                     *)

Init ==
  /\ num_workers \in 0..MaxWorkers
  /\ aborted = FALSE
  /\ cursor \in StartCursors
  /\ queue = <<>>
  /\ unfinished = 0
  /\ runState = "init"
  /\ ppc = "start"
  /\ feedStart = 0
  /\ feedCursor = 0
  /\ fileObj = 0
  /\ wpc = [w \in Workers |-> "loop"]
  /\ wobj = [w \in Workers |-> 0]
  /\ jsonFiles = {}
  /\ dataFiles = {}
  /\ printed = <<>>
  /\ putLog = <<>>
  /\ getLog = <<>>
  /\ fetchLog = <<>>

----------------------------------------------------------------------------
(* FeedReader.abort and FeedReader.run                                     *)

\* An abort() that toggles the flag instead of setting it.
abortToggles ==
  /\ aborted' = ~aborted
  /\ UNCHANGED <<num_workers, cursor, queue, unfinished, runState, ppc,
                 feedStart, feedCursor, fileObj, wpc, wobj, jsonFiles,
                 dataFiles, printed, putLog, getLog, fetchLog>>

\* An abort() that also throws away what is queued.
abortClearsQueue ==
  /\ aborted' = TRUE
  /\ queue' = <<>>
  /\ UNCHANGED <<num_workers, cursor, unfinished, runState, ppc,
                 feedStart, feedCursor, fileObj, wpc, wobj, jsonFiles,
                 dataFiles, printed, putLog, getLog, fetchLog>>

\* abort(): callable at any time, also from the SIGINT handler.
abort ==
  /\ aborted' = TRUE
  /\ UNCHANGED <<num_workers, cursor, queue, unfinished, runState, ppc,
                 feedStart, feedCursor, fileObj, wpc, wobj, jsonFiles,
                 dataFiles, printed, putLog, getLog, fetchLog>>

\* run(), lines 84-99: the producer task and the worker tasks are created and
\* the loop starts running them.
run ==
  /\ runState = "init"
  /\ runState' = "running"
  /\ UNCHANGED <<num_workers, aborted, cursor, queue, unfinished, ppc,
                 feedStart, feedCursor, fileObj, wpc, wobj, jsonFiles,
                 dataFiles, printed, putLog, getLog, fetchLog>>

\* run(), lines 102-103: gather() of the worker tasks completes once every
\* worker task has returned; the loop stops and no task runs any further.
run_return ==
  /\ runState = "running"
  /\ \A w \in Workers : wpc[w] = "done"
  /\ runState' = "returned"
  /\ UNCHANGED <<num_workers, aborted, cursor, queue, unfinished, ppc,
                 feedStart, feedCursor, fileObj, wpc, wobj, jsonFiles,
                 dataFiles, printed, putLog, getLog, fetchLog>>

\* run(), line 102: gather() propagates the first exception of a worker task
\* out of run_until_complete; run() raises and the loop no longer runs.
run_raise ==
  /\ runState = "running"
  /\ \E w \in Workers : wpc[w] = "failed"
  /\ runState' = "raised"
  /\ UNCHANGED <<num_workers, aborted, cursor, queue, unfinished, ppc,
                 feedStart, feedCursor, fileObj, wpc, wobj, jsonFiles,
                 dataFiles, printed, putLog, getLog, fetchLog>>

----------------------------------------------------------------------------
(* FeedReader._get_from_feed_and_enqueue (the producer task)               *)

\* A producer that opens the feed at its origin instead of at self._cursor.
producerStartAtFeedOrigin ==
  /\ runState = "running"
  /\ ppc = "start"
  /\ feedStart' = 0
  /\ feedCursor' = 0
  /\ fetchLog' = Append(fetchLog, aborted)
  /\ ppc' = "fetch"
  /\ UNCHANGED <<num_workers, aborted, cursor, queue, unfinished, runState,
                 fileObj, wpc, wobj, jsonFiles, dataFiles, printed, putLog,
                 getLog>>

\* Lines 44-46: the feed is opened at self._cursor and the first item is
\* requested; the flag is not consulted.
producer_start ==
  /\ runState = "running"
  /\ ppc = "start"
  /\ feedStart' = cursor
  /\ feedCursor' = cursor
  /\ fetchLog' = Append(fetchLog, aborted)
  /\ ppc' = "fetch"
  /\ UNCHANGED <<num_workers, aborted, cursor, queue, unfinished, runState,
                 fileObj, wpc, wobj, jsonFiles, dataFiles, printed, putLog,
                 getLog>>

\* Lines 47-50: the item enters the queue; then the flag is read: set, the loop
\* breaks and the cursor is stored; clear, the next item is requested.
enqueue(item) ==
  /\ queue' = Append(queue, item)
  /\ unfinished' = unfinished + 1
  /\ putLog' = Append(putLog, item)
  /\ IF aborted
       THEN /\ cursor' = feedCursor'
            /\ ppc' = "done"
            /\ fetchLog' = fetchLog
       ELSE /\ cursor' = cursor
            /\ ppc' = "fetch"
            /\ fetchLog' = Append(fetchLog, aborted)

\* Lines 46-50: the feed yields the next file object and feed.cursor now names
\* it.  put() follows without an await in between: on a queue that is not full
\* it returns at once, on a full one it suspends the producer.  The feed
\* yields at most limit objects in one run.
fetch_item(limit) ==
  /\ runState = "running"
  /\ ppc = "fetch"
  /\ feedCursor - feedStart < limit
  /\ feedCursor' = position_after(feedCursor)
  /\ fileObj' = position_after(feedCursor)
  /\ IF full(queue)
       THEN /\ ppc' = "put"
            /\ UNCHANGED <<cursor, queue, unfinished, putLog, fetchLog>>
       ELSE enqueue(position_after(feedCursor))
  /\ UNCHANGED <<num_workers, aborted, runState, feedStart, wpc, wobj,
                 jsonFiles, dataFiles, printed, getLog>>

\* The step above, for a feed of at most MaxItems objects.
producer_fetch_item == fetch_item(MaxItems)

\* The step above, for a feed with one object more than a queue of maxsize
\* items, the workers and the producer can hold between them.
producer_fetch_item_long == fetch_item(maxsize + num_workers + 2)

\* Lines 46, 50: the feed is exhausted; the loop ends and the cursor is stored.
producer_fetch_exhausted ==
  /\ runState = "running"
  /\ ppc = "fetch"
  /\ cursor' = feedCursor
  /\ ppc' = "done"
  /\ UNCHANGED <<num_workers, aborted, queue, unfinished, runState, feedStart,
                 feedCursor, fileObj, wpc, wobj, jsonFiles, dataFiles, printed,
                 putLog, getLog, fetchLog>>

\* Line 46: the fetch raises; the exception leaves the coroutine, line 50 is
\* skipped and nothing else is written.
producer_fetch_error ==
  /\ runState = "running"
  /\ ppc = "fetch"
  /\ ppc' = "error"
  /\ UNCHANGED <<num_workers, aborted, cursor, queue, unfinished, runState,
                 feedStart, feedCursor, fileObj, wpc, wobj, jsonFiles,
                 dataFiles, printed, putLog, getLog, fetchLog>>

\* Lines 47-50: the producer suspended in put() resumes once the queue is not
\* full.
producer_put ==
  /\ runState = "running"
  /\ ppc = "put"
  /\ ~full(queue)
  /\ feedCursor' = feedCursor
  /\ enqueue(fileObj)
  /\ UNCHANGED <<num_workers, aborted, runState, feedStart, fileObj, wpc,
                 wobj, jsonFiles, dataFiles, printed, getLog>>

----------------------------------------------------------------------------
(* FeedReader._process_files_from_queue (worker task w)                    *)

\* A get() that hands out the newest item of the queue instead of the oldest.
dequeueNewest(w) ==
  /\ wobj' = [wobj EXCEPT ![w] = queue[Len(queue)]]
  /\ queue' = SubSeq(queue, 1, Len(queue) - 1)
  /\ getLog' = Append(getLog, <<queue[Len(queue)], w>>)
  /\ wpc' = [wpc EXCEPT ![w] = "fetch"]

\* Worker w receives the oldest item of the queue.
dequeue(w) ==
  /\ wobj' = [wobj EXCEPT ![w] = Head(queue)]
  /\ queue' = rest(queue)
  /\ getLog' = Append(getLog, <<Head(queue), w>>)
  /\ wpc' = [wpc EXCEPT ![w] = "fetch"]

\* A worker loop whose condition is "while not self._aborted": it stops on
\* abort whatever the queue holds.
workerLoopStopsOnAbort(w) ==
  /\ runState = "running"
  /\ wpc[w] = "loop"
  /\ IF aborted
       THEN /\ wpc' = [wpc EXCEPT ![w] = "done"]
            /\ UNCHANGED <<queue, wobj, getLog>>
       ELSE IF ~empty(queue)
         THEN dequeue(w)
         ELSE /\ wpc' = [wpc EXCEPT ![w] = "get"]
              /\ UNCHANGED <<queue, wobj, getLog>>
  /\ UNCHANGED <<num_workers, aborted, cursor, unfinished, runState, ppc,
                 feedStart, feedCursor, fileObj, jsonFiles, dataFiles, printed,
                 putLog, fetchLog>>

\* Lines 59-60: the loop condition, and the call of get() that follows it
\* without an await in between: it returns at once when an item is there and
\* suspends otherwise.
worker_loop(w) ==
  /\ runState = "running"
  /\ wpc[w] = "loop"
  /\ IF ~(~aborted \/ ~empty(queue))
       THEN /\ wpc' = [wpc EXCEPT ![w] = "done"]
            /\ UNCHANGED <<queue, wobj, getLog>>
       ELSE IF ~empty(queue)
         THEN dequeue(w)
         ELSE /\ wpc' = [wpc EXCEPT ![w] = "get"]
              /\ UNCHANGED <<queue, wobj, getLog>>
  /\ UNCHANGED <<num_workers, aborted, cursor, unfinished, runState, ppc,
                 feedStart, feedCursor, fileObj, jsonFiles, dataFiles, printed,
                 putLog, fetchLog>>

\* Line 60: a worker suspended in get() resumes when the queue holds an item;
\* the flag is not read again while it waits.
worker_get(w) ==
  /\ runState = "running"
  /\ wpc[w] = "get"
  /\ ~empty(queue)
  /\ dequeue(w)
  /\ UNCHANGED <<num_workers, aborted, cursor, unfinished, runState, ppc,
                 feedStart, feedCursor, fileObj, jsonFiles, dataFiles, printed,
                 putLog, fetchLog>>

\* A worker that goes from the download straight to writing <id>, without
\* having written <id>.json.
workerFetchSkipsJson(w) ==
  /\ runState = "running"
  /\ wpc[w] = "fetch"
  /\ \E ok \in BOOLEAN :
       wpc' = [wpc EXCEPT ![w] = IF ok THEN "write_data" ELSE "failed"]
  /\ UNCHANGED <<num_workers, aborted, cursor, queue, unfinished, runState,
                 ppc, feedStart, feedCursor, fileObj, wobj, jsonFiles,
                 dataFiles, printed, putLog, getLog, fetchLog>>

\* Lines 65-66: the download completes, or raises; nothing catches the
\* exception, so it ends the worker task.
worker_fetch(w) ==
  /\ runState = "running"
  /\ wpc[w] = "fetch"
  /\ \E ok \in BOOLEAN :
       wpc' = [wpc EXCEPT ![w] = IF ok THEN "write_json" ELSE "failed"]
  /\ UNCHANGED <<num_workers, aborted, cursor, queue, unfinished, runState,
                 ppc, feedStart, feedCursor, fileObj, wobj, jsonFiles,
                 dataFiles, printed, putLog, getLog, fetchLog>>

\* Lines 69-70: <id>.json is written, or the write raises.
worker_write_json(w) ==
  /\ runState = "running"
  /\ wpc[w] = "write_json"
  /\ \E ok \in BOOLEAN :
       IF ok
         THEN /\ jsonFiles' = jsonFiles \cup {wobj[w]}
              /\ wpc' = [wpc EXCEPT ![w] = "write_data"]
         ELSE /\ jsonFiles' = jsonFiles
              /\ wpc' = [wpc EXCEPT ![w] = "failed"]
  /\ UNCHANGED <<num_workers, aborted, cursor, queue, unfinished, runState,
                 ppc, feedStart, feedCursor, fileObj, wobj, dataFiles, printed,
                 putLog, getLog, fetchLog>>

\* Lines 71-72: <id> is written, or the write raises.
worker_write_data(w) ==
  /\ runState = "running"
  /\ wpc[w] = "write_data"
  /\ \E ok \in BOOLEAN :
       IF ok
         THEN /\ dataFiles' = dataFiles \cup {wobj[w]}
              /\ wpc' = [wpc EXCEPT ![w] = "task_done"]
         ELSE /\ dataFiles' = dataFiles
              /\ wpc' = [wpc EXCEPT ![w] = "failed"]
  /\ UNCHANGED <<num_workers, aborted, cursor, queue, unfinished, runState,
                 ppc, feedStart, feedCursor, fileObj, wobj, jsonFiles, printed,
                 putLog, getLog, fetchLog>>

\* Lines 73-74: task_done() and print(file_obj.id); back to the loop condition.
worker_task_done(w) ==
  /\ runState = "running"
  /\ wpc[w] = "task_done"
  /\ unfinished' = unfinished - 1
  /\ printed' = Append(printed, wobj[w])
  /\ wpc' = [wpc EXCEPT ![w] = "loop"]
  /\ UNCHANGED <<num_workers, aborted, cursor, queue, runState, ppc,
                 feedStart, feedCursor, fileObj, wobj, jsonFiles, dataFiles,
                 putLog, getLog, fetchLog>>

----------------------------------------------------------------------------

\* A step of the event loop: of run() itself, of the producer or of a worker.
Step ==
  \/ run
  \/ run_return
  \/ run_raise
  \/ producer_start
  \/ producer_fetch_item
  \/ producer_fetch_exhausted
  \/ producer_fetch_error
  \/ producer_put
  \/ \E w \in Workers : worker_loop(w)
  \/ \E w \in Workers : worker_get(w)
  \/ \E w \in Workers : worker_fetch(w)
  \/ \E w \in Workers : worker_write_json(w)
  \/ \E w \in Workers : worker_write_data(w)
  \/ \E w \in Workers : worker_task_done(w)

Next == abort \/ Step

Spec == Init /\ [][Next]_vars

\* The same reader with at least one worker, on a feed long enough to fill the
\* queue, every worker and the producer and still have an object left.
InitLongFeed ==
  /\ num_workers \in 1..MaxLongFeedWorkers
  /\ aborted = FALSE
  /\ cursor \in StartCursors
  /\ queue = <<>>
  /\ unfinished = 0
  /\ runState = "init"
  /\ ppc = "start"
  /\ feedStart = 0
  /\ feedCursor = 0
  /\ fileObj = 0
  /\ wpc = [w \in Workers |-> "loop"]
  /\ wobj = [w \in Workers |-> 0]
  /\ jsonFiles = {}
  /\ dataFiles = {}
  /\ printed = <<>>
  /\ putLog = <<>>
  /\ getLog = <<>>
  /\ fetchLog = <<>>

NextLongFeed ==
  \/ abort
  \/ run
  \/ run_return
  \/ run_raise
  \/ producer_start
  \/ producer_fetch_item_long
  \/ producer_fetch_exhausted
  \/ producer_fetch_error
  \/ producer_put
  \/ \E w \in Workers : worker_loop(w)
  \/ \E w \in Workers : worker_get(w)
  \/ \E w \in Workers : worker_fetch(w)
  \/ \E w \in Workers : worker_write_json(w)
  \/ \E w \in Workers : worker_write_data(w)
  \/ \E w \in Workers : worker_task_done(w)

SpecLongFeed == InitLongFeed /\ [][NextLongFeed]_vars

----------------------------------------------------------------------------
(* Notions the properties below are stated with                            *)

\* The number of times x occurs in the sequence s.
Count(s, x) == Cardinality({k \in DOMAIN s : s[k] = x})

\* The items returned by get(), in the order the gets completed.
GotItems == [k \in DOMAIN getLog |-> getLog[k][1]]

\* No worker task has been ended by an exception.
NoWorkerFailed == \A w \in Workers : wpc[w] # "failed"

\* The position of the last item the producer received from the feed, the
\* constructor's cursor when it has received none.
LastReceived == IF ppc = "start" THEN cursor ELSE feedCursor

\* The producer's loop has ended because the feed ran out of items (every
\* fetch but the last one was followed by a put), not because of the break.
FeedEnded == ppc = "done" /\ Len(fetchLog) > Len(putLog)

\* run() was called, and the producer started its first fetch, before any call
\* of abort().
AbortedWhileRunning == aborted /\ Len(fetchLog) >= 1 /\ ~fetchLog[1]

\* The item has both of its output files.
Processed(i) == i \in jsonFiles /\ i \in dataFiles

----------------------------------------------------------------------------
(* C1..C10                                                                 *)

\* C1: once abort() has been called, run() eventually returns: the run cannot
\* be left, with the flag set, in a state that is not "run() has returned" and
\* from which no task and no part of run() can take a further step.  Stated for
\* runs with at least one worker in which no task has failed and the feed has
\* not run out of items.
C1_AbortedRunReturns ==
  (aborted /\ num_workers >= 1 /\ NoWorkerFailed /\ ppc # "error" /\ ~FeedEnded)
    => (runState = "returned" \/ ENABLED Step)

\* C2: drain completeness: when run() has returned, no item the producer has
\* put is still in the queue, and every item it has put has been processed
\* (both output files written).  Stated for runs with at least one worker in
\* which abort() was called while run() was running.
C2_DrainComplete ==
  (runState = "returned" /\ num_workers >= 1 /\ AbortedWhileRunning)
    => /\ queue = <<>>
       /\ \A k \in DOMAIN putLog : Processed(putLog[k])

\* C3: when run() has returned, cursor() is the position of the last item the
\* producer received from the feed (the starting cursor if it received none).
\* Stated for runs with at least one worker in which abort() was called while
\* run() was running.
C3_FinalCursorIsLastReceived ==
  (runState = "returned" /\ num_workers >= 1 /\ AbortedWhileRunning)
    => cursor = LastReceived

\* C4: for every worker count N >= 1 the queue never holds more than C = N
\* items.
C4_QueueBounded == num_workers >= 1 => Len(queue) <= num_workers

\* C4 witness: the queue is at capacity while the producer holds an item it is
\* waiting to put.
C4_Witness ==
  /\ num_workers >= 1
  /\ Len(queue) = num_workers
  /\ ppc = "put"

\* C5: exactly-once delivery: every item the producer has put is either still
\* in the queue or has been returned by get exactly once, never both and never
\* neither; and whatever is in the queue or was returned by get was put once.
C5_ExactlyOnce ==
  /\ \A k \in DOMAIN putLog :
       Count(queue, putLog[k]) + Count(GotItems, putLog[k]) = 1
  /\ \A k \in DOMAIN queue : Count(putLog, queue[k]) = 1
  /\ \A k \in DOMAIN getLog : Count(putLog, getLog[k][1]) = 1

\* C5 witness: two different workers have received items, a third item is
\* still queued.
C5_Witness ==
  /\ Len(getLog) >= 2
  /\ getLog[1][2] # getLog[2][2]
  /\ Len(queue) >= 1

\* C6: every feed fetch the producer starts, its first one included, is
\* started while the abort flag is false.  Stated for at least one worker.
C6_FetchStartsOnlyUnaborted ==
  num_workers >= 1 => \A k \in DOMAIN fetchLog : fetchLog[k] = FALSE

\* C7: a download or write failure for one item does not end the worker task
\* and does not make run() fail.
C7_ItemFailureIsContained ==
  /\ \A w \in Workers : wpc[w] # "failed"
  /\ runState # "raised"

\* C8: when a feed fetch has failed in the producer, the abort flag is true.
\* Stated for at least one worker.
C8_FeedErrorSetsAbort == (num_workers >= 1 /\ ppc = "error") => aborted

\* C9: natural completion: with the feed exhausted and abort never requested,
\* run() returns: the run cannot be left, with the producer finished and the
\* flag clear, in a state that is not "run() has returned" and from which no
\* task and no part of run() can take a further step.  Stated for runs with at
\* least one worker in which no worker has failed.
C9_NaturalCompletion ==
  (ppc = "done" /\ ~aborted /\ num_workers >= 1 /\ NoWorkerFailed)
    => (runState = "returned" \/ ENABLED Step)

\* C10: a run in which some worker's per-item download or write failed still
\* completes, and reports the position the producer had reached: once such a
\* run is over, run() has returned and cursor() is the position of the last
\* item the producer received.
C10_FailureLeavesResultAlone ==
  ((\E w \in Workers : wpc[w] = "failed") /\ runState \notin {"init", "running"})
    => (runState = "returned" /\ cursor = LastReceived)

----------------------------------------------------------------------------
(* C11..C20                                                                *)

\* C11: a worker count (and so a queue capacity) that is not positive is
\* rejected before any task is launched: with num_workers <= 0 run() never
\* gets to run the event loop and the producer task never takes a step.
C11_InvalidWorkerCountRejected ==
  num_workers <= 0 => (runState = "init" /\ ppc = "start")

\* C12: FIFO: the items are put in the order the feed yields them (the k-th
\* item put is the k-th item after the position the feed was opened at), and
\* the items returned by the gets, in the order the gets completed, followed by
\* the items still queued, are the items put, in the order they were put.
C12_Fifo ==
  /\ \A k \in DOMAIN putLog : putLog[k] = feedStart + k
  /\ putLog = GotItems \o queue

\* C12 witness: with two workers, two gets have completed, the first one by
\* worker 2 and the second one by worker 1, while a later item is queued.
C12_Witness ==
  /\ Len(getLog) >= 2
  /\ getLog[1][2] = 2
  /\ getLog[2][2] = 1
  /\ Len(queue) >= 1

\* C13: the abort flag only ever goes from false to true: no step of the
\* pipeline resets it; a call of abort() leaves it true; and a call of abort()
\* with the flag already set changes nothing at all (a second call has the
\* effect of the first alone).
C13_AbortFlagMonotoneIdempotent ==
  [][ /\ aborted => aborted'
      /\ abort => aborted'
      /\ (abort /\ aborted) => UNCHANGED vars ]_vars

\* C13 witness: the flag was set while the pipeline was at work and is still
\* set after run() has returned with items processed.
C13_Witness ==
  /\ aborted
  /\ runState = "returned"
  /\ Len(printed) >= 1

\* C14: run() returns only after the producer task has exited as well as all
\* the worker tasks: when run() has returned, every worker task is done and the
\* producer is no longer inside its feed loop.  Stated for runs with at least
\* one worker in which abort() was called while run() was running.
C14_ReturnsAfterProducerExit ==
  (runState = "returned" /\ num_workers >= 1 /\ AbortedWhileRunning)
    => /\ \A w \in Workers : wpc[w] = "done"
       /\ ppc \in {"done", "error"}

\* C15: in every state of a run cursor() is the position of the last item the
\* feed has yielded to the producer so far (the constructor's cursor before the
\* first one).  Stated for at least one worker.
C15_CursorTracksLastYielded ==
  num_workers >= 1 => cursor = LastReceived

\* C16: the position held by the reader never decreases: every step that
\* writes the cursor stores a position at or after the one stored before, and
\* no step, of the producer stopping on abort or on a fetch failure included,
\* rolls it back.
C16_CursorMonotone == [][cursor' >= cursor]_vars

\* C16 witness: a reader constructed with the cursor 1 has stored a later
\* position when its producer stopped on abort.
C16_Witness ==
  /\ feedStart = 1
  /\ ppc = "done"
  /\ aborted
  /\ cursor > feedStart

\* C17: a worker leaves its loop only in a state where the abort flag is set
\* and the queue is empty: every step that takes a worker task to its normal
\* end starts in such a state (a worker ended by an exception is not at its
\* normal end).
C17_WorkerExitsOnlyWhenDrained ==
  [][\A w \in Workers :
       (wpc[w] # "done" /\ wpc'[w] = "done") => (aborted /\ queue = <<>>)]_vars

\* C17 witness: a worker has left its loop after items were processed, while
\* another worker is still working on an item.
C17_Witness ==
  /\ \E w \in Workers : wpc[w] = "done"
  /\ \E w \in Workers : wpc[w] \in {"fetch", "write_json", "write_data"}
  /\ Len(printed) >= 1

\* C18: per-item order of a worker's steps: an item whose id was printed has
\* both of its files; an item with its content file has its metadata file; a
\* worker about to call task_done() has written both files of its item; and
\* task_done() was called as many times as ids were printed.
C18_StepOrder ==
  /\ \A k \in DOMAIN printed : Processed(printed[k])
  /\ dataFiles \subseteq jsonFiles
  /\ \A w \in Workers : wpc[w] = "task_done" => Processed(wobj[w])
  /\ Len(putLog) - unfinished = Len(printed)

\* C18 witness: one item is complete and printed while a worker has written
\* the metadata file of another item and not yet its content file.
C18_Witness ==
  /\ Len(printed) >= 1
  /\ \E w \in Workers :
       /\ wpc[w] = "write_data"
       /\ wobj[w] \in jsonFiles
       /\ wobj[w] \notin dataFiles

\* Everything but the abort flag: the queue and its accounting, the cursor,
\* where run() and every task are, what they hold, and the files and output.
AllButAbortFlag ==
  <<num_workers, cursor, queue, unfinished, runState, ppc, feedStart,
    feedCursor, fileObj, wpc, wobj, jsonFiles, dataFiles, printed, putLog,
    getLog, fetchLog>>

\* C19: abort() changes only the abort flag: a step in which the flag changes,
\* and any step of abort(), leaves the queue, the cursor, run(), the tasks and
\* what they have in flight as they were.
C19_AbortChangesOnlyFlag ==
  [][(aborted' # aborted \/ abort) => UNCHANGED AllButAbortFlag]_vars

\* C19 witness: the flag is set while an item is queued, a worker is in the
\* middle of a download and the producer has a feed fetch in flight.
C19_Witness ==
  /\ aborted
  /\ runState = "running"
  /\ Len(queue) >= 1
  /\ ppc = "fetch"
  /\ \E w \in Workers : wpc[w] = "fetch"

\* The number of objects the producer has received from the feed.
Received == IF ppc = "start" THEN 0 ELSE feedCursor - feedStart

\* The number of objects received whose processing has not completed.
InFlight == Received - Len(printed)

\* The objects held by the producer (suspended in put), and by workers (taken
\* from the queue and not yet through task_done; a worker ended by an
\* exception keeps the object it failed on).
HeldByProducer == IF ppc = "put" THEN 1 ELSE 0
HeldByWorkers ==
  Cardinality({w \in Workers :
     wpc[w] \in {"fetch", "write_json", "write_data", "task_done", "failed"}})

\* C20: backpressure: with N >= 1 workers and capacity C = N, the objects
\* received from the feed and not yet completed are those held by the
\* producer, in the queue and held by workers, and there are never more than
\* C + N + 1 of them.
C20_InFlightBounded ==
  num_workers >= 1 =>
    /\ InFlight = HeldByProducer + Len(queue) + HeldByWorkers
    /\ InFlight <= num_workers + num_workers + 1

\* C20 witness: the bound is met: every worker holds an object, the queue is
\* full and the producer holds one more, with the feed not yet at its end.
C20_Witness ==
  /\ num_workers >= 1
  /\ InFlight = num_workers + num_workers + 1
  /\ Received < maxsize + num_workers + 2

=============================================================================
